---- MODULE Spec2Model ----
(***************************************************************************)
(* Model of src/app.py, the Retail Financial Automator: a Streamlit script *)
(* that loads an uploaded sales table, cleans it, converts USD amounts to  *)
(* INR with a year-indexed rate and offers an HTML dashboard for download. *)
(*                                                                         *)
(* Values.  A cell of the data frame is a record tagged by k:              *)
(*   [k |-> "num", n, d]   the float n / 10^d (kept normalised)            *)
(*   [k |-> "nan"]         float NaN, which is also pandas' missing value  *)
(*   [k |-> "str", s]      a Python str, s the sequence of its characters  *)
(*   [k |-> "ts", y, m, d] a pandas Timestamp,  [k |-> "nat"]  NaT         *)
(* A character is a one-element string; "Rs" stands for the rupee sign     *)
(* U+20B9.  A raised exception is the value [k |-> "err", e |-> <type>].   *)
(***************************************************************************)
EXTENDS Integers, Sequences, FiniteSets, TLC

VARIABLES
    file,       \* the uploaded file [readable, hdr, rows], None without upload
    pc,         \* the statement of the script that runs next
    df,         \* the data frame [hdr, rows], None before the file is read
    records,    \* the list built at line 71, None before
    html,       \* the document built at line 76, None before
    ui,         \* what the run has shown the operator (lines 67, 68, 158, 161), in order
    trail,      \* the statements of the script completed in this run, in order
    arg,        \* argument of a helper call under SpecParse / SpecRate
    ret,        \* its result, None before the call
    again       \* SpecNorm: the cleaning pipeline applied a second time

vars == <<file, pc, df, records, html, ui, trail, arg, ret, again>>

\* ------------------------------------------------------------------ bounds
MaxRows == 2        \* rows of an uploaded table
MaxLen == 4         \* characters of a textual amount given to clean_currency

\* ------------------------------------------------------------------ values
NaN == [k |-> "nan"]
NaT == [k |-> "nat"]
Str(s) == [k |-> "str", s |-> s]
Err(e) == [k |-> "err", e |-> e]
IsErr(v) == v.k = "err"

RECURSIVE Norm(_, _)
\* n / 10^d with trailing zero decimals removed, so equal floats are equal values
Norm(n, d) == IF d > 0 /\ n % 10 = 0 THEN Norm(n \div 10, d - 1)
              ELSE [k |-> "num", n |-> n, d |-> d]
Num(n) == Norm(n, 0)

RECURSIVE Pow10(_)
Pow10(d) == IF d = 0 THEN 1 ELSE 10 * Pow10(d - 1)

\* float multiplication (exact decimal arithmetic; NaN is absorbing)
FMul(a, b) == IF a.k = "nan" \/ b.k = "nan" THEN NaN
              ELSE Norm(a.n * b.n, a.d + b.d)

\* ----------------------------------------------------------------- strings
Whitespace == {" "}
Digits == <<"0", "1", "2", "3", "4", "5", "6", "7", "8", "9">>
IsDigit(c) == \E i \in 1..10 : Digits[i] = c
DigitVal(c) == (CHOOSE i \in 1..10 : Digits[i] = c) - 1

\* str.replace(c, ''): every occurrence of the character c removed
Replace(s, c) == LET keep(x) == x # c IN SelectSeq(s, keep)

RECURSIVE LStrip(_)
LStrip(s) == IF s # <<>> /\ Head(s) \in Whitespace THEN LStrip(Tail(s)) ELSE s
RECURSIVE RStrip(_)
RStrip(s) == IF s # <<>> /\ s[Len(s)] \in Whitespace
             THEN RStrip(SubSeq(s, 1, Len(s) - 1)) ELSE s
\* str.strip()
Strip(s) == RStrip(LStrip(s))

RECURSIVE DigitsVal(_)
\* the integer a run of digit characters denotes (0 for the empty run)
DigitsVal(s) == IF s = <<>> THEN 0
                ELSE 10 * DigitsVal(SubSeq(s, 1, Len(s) - 1)) + DigitVal(s[Len(s)])

AllDigits(s) == \A i \in 1..Len(s) : IsDigit(s[i])

\* Python's float(str) on the characters the model draws from (digits, '.',
\* '-', ' ', letters): surrounding whitespace is ignored, then an optional
\* sign, then either the word "nan" or digits with at most one '.', at least
\* one digit in all.  Anything else raises ValueError.
PyFloat(s) ==
    LET t == Strip(s)
        neg == t # <<>> /\ Head(t) = "-"
        body == IF neg THEN Tail(t) ELSE t
        dots == {i \in 1..Len(body) : body[i] = "."}
        dot == IF dots = {} THEN Len(body) + 1 ELSE CHOOSE i \in dots : TRUE
        ip == SubSeq(body, 1, dot - 1)
        fp == SubSeq(body, dot + 1, Len(body))
        mag == DigitsVal(ip) * Pow10(Len(fp)) + DigitsVal(fp)
    IN  IF body = <<"n", "a", "n">> THEN NaN
        ELSE IF /\ Cardinality(dots) <= 1
                /\ AllDigits(ip) /\ AllDigits(fp)
                /\ Len(ip) + Len(fp) >= 1
             THEN Norm(IF neg THEN 0 - mag ELSE mag, Len(fp))
             ELSE Err("ValueError")

\* --------------------------------------------------------- helper functions
\* clean_currency(value), lines 15-19
clean_currency(value) ==
    IF value.k = "str"
    THEN PyFloat(Strip(Replace(Replace(Replace(value.s, "$"), "Rs"), ",")))
    ELSE value

\* the dict literal of line 28, rates in tenths of a rupee per dollar
rates == 2021 :> Norm(741, 1) @@ 2022 :> Norm(786, 1) @@ 2023 :> Norm(825, 1)
         @@ 2024 :> Norm(834, 1) @@ 2025 :> Norm(845, 1)

\* rates[year] in place of rates.get(year, 83.0)
get_ibr_rate_nodefault(date) ==
    IF date.y \in DOMAIN rates THEN rates[date.y] ELSE Err("KeyError")

\* get_ibr_rate(date), lines 21-29: rates.get(year, 83.0)
get_ibr_rate(date) ==
    LET year == date.y
    IN  IF year \in DOMAIN rates THEN rates[year] ELSE Norm(830, 1)

\* --------------------------------------------------------------- data frame
\* A data frame is [k |-> "df", hdr, rows]: hdr the set of column labels (a label is a
\* sequence of characters; a column name is kept as one element, padding
\* blanks as elements of their own), rows the sequence of rows, each row a
\* function from column name to cell, with the index label under "idx".
None == [k |-> "none"]
HasCol(d, name) == <<name>> \in d.hdr

\* df[name] = col, col holding one cell per row (a new column, or an
\* existing one replaced)
SetCol(d, name, col) ==
    [k |-> "df", hdr |-> d.hdr \cup {<<name>>},
     rows |-> [i \in 1..Len(d.rows) |->
                 [c \in DOMAIN d.rows[i] \cup {name} |->
                     IF c = name THEN col[i] ELSE d.rows[i][c]]]]

\* the positions of the rows of d
Rows(d) == 1..Len(d.rows)

\* line 37: pd.read_csv / pd.read_excel of the uploaded file (either reader
\* yields the table or raises)
ReadFile(f) == IF f.readable THEN [k |-> "df", hdr |-> f.hdr, rows |-> f.rows]
               ELSE Err("ParserError")

\* line 41: df.columns = df.columns.str.strip()
StripColumns(d) == [d EXCEPT !.hdr = {Strip(l) : l \in d.hdr}]

\* Series.fillna(v)
fillna(cell, v) == IF cell.k = "nan" THEN v ELSE cell

\* line 44: df['Category'] = df['Category'].fillna('Uncategorized')
FillCategory(d) ==
    IF ~HasCol(d, "Category") THEN Err("KeyError")
    ELSE SetCol(d, "Category",
                [i \in Rows(d) |-> fillna(d.rows[i]["Category"], Str(<<"Uncategorized">>))])

\* line 45: df['Sales Per'] = df['Sales Per'].fillna(0)
FillSales(d) ==
    IF ~HasCol(d, "Sales Per") THEN Err("KeyError")
    ELSE SetCol(d, "Sales Per",
                [i \in Rows(d) |-> fillna(d.rows[i]["Sales Per"], Num(0))])

\* lines 48-49: df[name] = df[name].apply(clean_currency); the first element
\* on which clean_currency raises aborts the apply
ApplyCleanCurrency(d, name) ==
    IF ~HasCol(d, name) THEN Err("KeyError")
    ELSE IF \E i \in 1..Len(d.rows) : IsErr(clean_currency(d.rows[i][name]))
         THEN Err("ValueError")
         ELSE SetCol(d, name, [i \in Rows(d) |-> clean_currency(d.rows[i][name])])

LeapYear(y) == (y % 4 = 0 /\ y % 100 # 0) \/ y % 400 = 0
DaysIn(y, m) == IF m = 2 THEN (IF LeapYear(y) THEN 29 ELSE 28)
                ELSE IF m \in {4, 6, 9, 11} THEN 30 ELSE 31

\* pd.to_datetime(cell, errors='coerce') of one element: a date text
\* [k |-> "date", y, m, d] is the string "YYYY-MM-DD"; a calendar date within
\* the Timestamp range parses, everything else (other text, a missing value,
\* an impossible date) is coerced to NaT
to_datetime(cell) ==
    IF cell.k = "ts" THEN cell
    ELSE IF /\ cell.k = "date"
            /\ cell.y \in 1678..2261     \* the whole years a Timestamp holds
            /\ cell.m \in 1..12
            /\ cell.d \in 1..DaysIn(cell.y, cell.m)
         THEN [k |-> "ts", y |-> cell.y, m |-> cell.m, d |-> cell.d]
         ELSE NaT

\* line 52: df['Order Date'] = pd.to_datetime(df['Order Date'], errors='coerce')
ParseDates(d) ==
    IF ~HasCol(d, "Order Date") THEN Err("KeyError")
    ELSE SetCol(d, "Order Date",
                [i \in Rows(d) |-> to_datetime(d.rows[i]["Order Date"])])

\* df.dropna() without the subset: a row with any missing cell is dropped
DropNaAny(d) ==
    LET keep(r) == \A c \in DOMAIN r \ {"idx"} : r[c].k \notin {"nat", "nan"}
    IN  [d EXCEPT !.rows = SelectSeq(d.rows, keep)]

\* line 53: df = df.dropna(subset=['Order Date'])
DropNaDates(d) ==
    LET keep(r) == r["Order Date"].k # "nat"
    IN  [d EXCEPT !.rows = SelectSeq(d.rows, keep)]

\* line 56: df['IBR_Rate'] = df['Order Date'].apply(get_ibr_rate)
MapRate(d) ==
    SetCol(d, "IBR_Rate", [i \in Rows(d) |-> get_ibr_rate(d.rows[i]["Order Date"])])

\* lines 59-60
CopyUSD(d) ==
    SetCol(SetCol(d, "Sales_USD", [i \in Rows(d) |-> d.rows[i]["Sales Per"]]),
           "Profit_USD", [i \in Rows(d) |-> d.rows[i]["Profit"]])

\* Profit_INR computed from Sales_USD
ConvertINRSwapped(d) ==
    LET s == [i \in Rows(d) |-> FMul(d.rows[i]["Sales_USD"], d.rows[i]["IBR_Rate"])]
    IN  SetCol(SetCol(d, "Sales_INR", s), "Profit_INR", s)

\* lines 62-63
ConvertINR(d) ==
    SetCol(SetCol(d, "Sales_INR",
                  [i \in Rows(d) |-> FMul(d.rows[i]["Sales_USD"], d.rows[i]["IBR_Rate"])]),
           "Profit_INR",
           [i \in Rows(d) |-> FMul(d.rows[i]["Profit_USD"], d.rows[i]["IBR_Rate"])])

\* the decimal digits of n, zero-padded to width w
RECURSIVE ZeroPad(_, _)
ZeroPad(n, w) == IF w = 0 THEN <<>>
                 ELSE Append(ZeroPad(n \div 10, w - 1), Digits[(n % 10) + 1])

\* Period('M') as str: "YYYY-MM"
PeriodStr(ts) == Str(ZeroPad(ts.y, 4) \o <<"-">> \o ZeroPad(ts.m, 2))

\* line 65: df['YearMonth'] = df['Order Date'].dt.to_period('M').astype(str)
AddYearMonth(d) ==
    SetCol(d, "YearMonth", [i \in Rows(d) |-> PeriodStr(d.rows[i]["Order Date"])])

\* the columns selected at lines 71-72
ExportCols == {"YearMonth", "Category", "Segment", "State", "Sales_INR",
               "Sales_USD", "Profit_INR", "Profit_USD", "Quantity", "Order ID",
               "Customer ID", "IBR_Rate"}

\* the rows exported last first, as df[::-1] would
ToRecordsNewestFirst(d) ==
    IF \E c \in ExportCols : ~HasCol(d, c) THEN Err("KeyError")
    ELSE [k |-> "list",
          items |-> [i \in 1..Len(d.rows) |->
                       [c \in ExportCols |-> d.rows[Len(d.rows) + 1 - i][c]]]]

\* lines 71-72: df[[...]].to_dict(orient='records')
ToRecords(d) ==
    IF \E c \in ExportCols : ~HasCol(d, c) THEN Err("KeyError")
    ELSE [k |-> "list",
          items |-> [i \in 1..Len(d.rows) |-> [c \in ExportCols |-> d.rows[i][c]]]]

RECURSIVE SumInts(_)
SumInts(cells) == IF cells = <<>> THEN 0
                  ELSE (IF Head(cells).k = "num" THEN Head(cells).n ELSE 0)
                       + SumInts(Tail(cells))

\* lines 76-155: the f-string; f"{df['Quantity'].sum():,}" raises when the
\* column holds text (the sum of an object column is not a number), NaN
\* quantities are skipped by sum()
Render(d, recs) ==
    LET q == [i \in 1..Len(d.rows) |-> d.rows[i]["Quantity"]]
    IN  IF \E i \in 1..Len(q) : q[i].k = "str" THEN Err("ValueError")
        ELSE [k |-> "html", data |-> recs, items_sold |-> SumInts(q)]

\* df.tail(): the index labels of the last five rows
TailIdx(d) ==
    LET n == Len(d.rows)
        from == IF n > 5 THEN n - 4 ELSE 1
    IN  [i \in 1..(n - from + 1) |-> d.rows[from + i - 1]["idx"]]

\* ------------------------------------------------------------------ inputs
DateText(y, m, d) == [k |-> "date", y |-> y, m |-> m, d |-> d]
Word(w) == Str(<<w>>)

\* the columns the script refers to
Columns == {"Order Date", "Category", "Sales Per", "Profit", "Segment",
            "State", "Quantity", "Order ID", "Customer ID"}

InputRow(date, cat, sales, profit, qty) ==
    "Order Date" :> date @@ "Category" :> cat @@ "Sales Per" :> sales
    @@ "Profit" :> profit @@ "Quantity" :> qty

\* the rows an uploaded table is made of (a table read from a spreadsheet
\* may mix numeric and textual cells in one column)
RowPool ==
    { InputRow(DateText(2023, 6, 15), NaN, Str(<<"$", "1", "0", "0">>),
               Str(<<"$", "2", "0">>), Num(2)),
      InputRow(DateText(2021, 12, 1), Word("Tech"), Norm(12005, 1),
               Num(0 - 3), Num(1)),
      InputRow(Word("not-a-date"), Word("Tech"), Str(<<"1", ",", "0">>),
               Word("free"), Num(1)),
      InputRow(DateText(2023, 2, 30), Word("Office"), Str(<<"Rs", " ", "5">>),
               Num(4), Num(3)),
      InputRow(NaN, Word("Office"), Num(7), Num(1), NaN),
      InputRow(DateText(1999, 1, 5), Word("Tech"), NaN, NaN, Num(1)),
      InputRow(DateText(2024, 10, 2), NaN, Str(<<"$", "n", "a", "n">>),
               Str(<<"-", ".", "5">>), Num(2)),
      InputRow(DateText(2025, 3, 9), Word("Tech"), Str(<<"$">>), Num(2), Num(1)),
      InputRow(DateText(2022, 11, 30), Word("Office"), Num(10), Num(2),
               Word("two")) }

\* the tables: up to MaxRows pool rows; the index label and the Order ID are
\* the row's position, the remaining columns carry one value
Tables ==
    UNION {[1..n -> RowPool] : n \in 0..MaxRows}
FullRow(r, i) ==
    r @@ "idx" :> i @@ "Order ID" :> Num(i) @@ "Segment" :> Word("Consumer")
    @@ "State" :> Word("Texas") @@ "Customer ID" :> Word("C1")

\* the header rows: every column present and exact, one label padded with
\* blanks, or one column absent
Label(c) == <<c>>
Headers ==
    {{Label(c) : c \in Columns}}
    \cup {{IF c = p THEN <<" ">> \o Label(c) \o <<" ">> ELSE Label(c) : c \in Columns}
              : p \in {"Category", "Profit"}}
    \cup {{Label(c) : c \in Columns \ {a}} : a \in Columns}

FileOf(h, t) ==
    LET present == {c \in Columns : \E l \in h : Strip(l) = Label(c)}
    IN  [k |-> "file", readable |-> TRUE, hdr |-> h,
         rows |-> [i \in 1..Len(t) |->
                     [c \in present \cup {"idx"} |-> FullRow(t[i], i)[c]]]]

Unreadable == [k |-> "file", readable |-> FALSE, hdr |-> {}, rows |-> <<>>]

Files == {FileOf(h, t) : h \in Headers, t \in Tables} \cup {Unreadable}

\* ---------------------------------------------------------------- the script
Init ==
    /\ file \in Files \cup {None}
    /\ pc = "start"
    /\ df = None
    /\ records = None
    /\ html = None
    /\ ui = <<>>
    /\ trail = <<>>
    /\ arg = None /\ ret = None /\ again = None

\* lines 160-161: the exception raised by statement `here` reaches the
\* handler, which shows st.error and ends the run
Except(e) ==
    /\ ui' = Append(ui, [m |-> "error", e |-> e.e])
    /\ pc' = "done"

\* a statement df = op(df): it either completes or raises into the handler
Statement(here, next, r) ==
    /\ pc = here
    /\ IF IsErr(r)
       THEN Except(r) /\ UNCHANGED <<df, trail>>
       ELSE /\ df' = r
            /\ trail' = Append(trail, here)
            /\ pc' = next
            /\ UNCHANGED ui
    /\ UNCHANGED <<file, records, html, arg, ret, again>>

\* line 34: no file uploaded, the script ends
NoUpload ==
    /\ pc = "start" /\ file = None
    /\ pc' = "done"
    /\ UNCHANGED <<file, df, records, html, ui, trail, arg, ret, again>>

\* line 37
Load ==
    /\ file # None
    /\ Statement("start", "strip", ReadFile(file))

StripStep == df # None /\ Statement("strip", "fill_category", StripColumns(df))
FillCategoryStep ==
    df # None /\ Statement("fill_category", "fill_sales", FillCategory(df))
FillSalesStep == df # None /\ Statement("fill_sales", "parse_sales", FillSales(df))
ParseSalesStep ==
    df # None /\ Statement("parse_sales", "parse_profit", ApplyCleanCurrency(df, "Sales Per"))
ParseProfitStep ==
    df # None /\ Statement("parse_profit", "to_datetime", ApplyCleanCurrency(df, "Profit"))
ParseDatesStep == df # None /\ Statement("to_datetime", "dropna", ParseDates(df))
DropNaStep == df # None /\ Statement("dropna", "ibr_rate", DropNaDates(df))
MapRateStep == df # None /\ Statement("ibr_rate", "usd", MapRate(df))
CopyUSDStep == df # None /\ Statement("usd", "inr", CopyUSD(df))
ConvertINRStep == df # None /\ Statement("inr", "yearmonth", ConvertINR(df))
YearMonthStep == df # None /\ Statement("yearmonth", "success", AddYearMonth(df))

\* line 67: st.success(f"Successfully processed {len(df)} records ...")
Success ==
    /\ pc = "success"
    /\ ui' = Append(ui, [m |-> "success", n |-> Len(df.rows)])
    /\ trail' = Append(trail, "success")
    /\ pc' = "preview"
    /\ UNCHANGED <<file, df, records, html, arg, ret, again>>

\* line 68: st.write("### Data Preview (Last 5 Rows)", df.tail())
Preview ==
    /\ pc = "preview"
    /\ ui' = Append(ui, [m |-> "preview", idx |-> TailIdx(df)])
    /\ trail' = Append(trail, "preview")
    /\ pc' = "export"
    /\ UNCHANGED <<file, df, records, html, arg, ret, again>>

\* lines 71-72
Export ==
    /\ pc = "export"
    /\ LET r == ToRecords(df)
       IN  IF IsErr(r)
           THEN Except(r) /\ UNCHANGED <<records, trail>>
           ELSE /\ records' = r
                /\ trail' = Append(trail, "export")
                /\ pc' = "render"
                /\ UNCHANGED ui
    /\ UNCHANGED <<file, df, html, arg, ret, again>>

\* lines 76-155
RenderStep ==
    /\ pc = "render"
    /\ LET r == Render(df, records.items)
       IN  IF IsErr(r)
           THEN Except(r) /\ UNCHANGED <<html, trail>>
           ELSE /\ html' = r
                /\ trail' = Append(trail, "render")
                /\ pc' = "download"
                /\ UNCHANGED ui
    /\ UNCHANGED <<file, df, records, arg, ret, again>>

\* line 158: st.download_button(..., html_content, ...)
Download ==
    /\ pc = "download"
    /\ ui' = Append(ui, [m |-> "download", doc |-> html])
    /\ trail' = Append(trail, "download")
    /\ pc' = "done"
    /\ UNCHANGED <<file, df, records, html, arg, ret, again>>

Next ==
    \/ NoUpload \/ Load \/ StripStep \/ FillCategoryStep \/ FillSalesStep
    \/ ParseSalesStep \/ ParseProfitStep \/ ParseDatesStep \/ DropNaStep
    \/ MapRateStep \/ CopyUSDStep \/ ConvertINRStep \/ YearMonthStep
    \/ Success \/ Preview \/ Export \/ RenderStep \/ Download

Spec == Init /\ [][Next]_vars

\* ------------------------------------------------ the helpers, called alone
\* the characters a textual amount is drawn from
Alphabet == {"0", "1", "$", "Rs", ",", ".", "-", " ", "n", "a"}
Texts == UNION {[1..n -> Alphabet] : n \in 0..MaxLen}
\* the texts read_csv / read_excel turn into a missing value (default
\* na_values), which therefore never reach clean_currency as text
NaLiterals == {<<>>, <<"n", "a", "n">>, <<"-", "n", "a", "n">>}
AmountArgs == {Str(s) : s \in Texts \ NaLiterals}
              \cup {NaN, Num(0), Num(0 - 3), Norm(12005, 1)}

Years == {1678, 1999, 2020, 2021, 2022, 2023, 2024, 2025, 2026, 2261}
Timestamps == {[k |-> "ts", y |-> y, m |-> m, d |-> 1] : y \in Years, m \in 1..12}

NoRun ==
    /\ file = None /\ df = None /\ records = None /\ html = None
    /\ ui = <<>> /\ trail = <<>> /\ again = None

InitParse == NoRun /\ pc = "call" /\ arg \in AmountArgs /\ ret = None
CallCleanCurrency ==
    /\ pc = "call" /\ arg.k \in {"str", "num", "nan"}
    /\ ret' = clean_currency(arg)
    /\ pc' = "returned"
    /\ UNCHANGED <<file, df, records, html, ui, trail, arg, again>>
SpecParse == InitParse /\ [][CallCleanCurrency]_vars

InitRate == NoRun /\ pc = "call" /\ arg \in Timestamps /\ ret = None
CallGetIbrRate ==
    /\ pc = "call" /\ arg.k = "ts"
    /\ ret' = get_ibr_rate(arg)
    /\ pc' = "returned"
    /\ UNCHANGED <<file, df, records, html, ui, trail, arg, again>>
SpecRate == InitRate /\ [][CallGetIbrRate]_vars

\* ------------------------------------- the cleaning pipeline, applied twice
\* lines 41-53 in order, an exception ending the sequence
Cleaning(d) ==
    LET s1 == StripColumns(d)
        s2 == FillCategory(s1)
        s3 == IF IsErr(s2) THEN s2 ELSE FillSales(s2)
        s4 == IF IsErr(s3) THEN s3 ELSE ApplyCleanCurrency(s3, "Sales Per")
        s5 == IF IsErr(s4) THEN s4 ELSE ApplyCleanCurrency(s4, "Profit")
        s6 == IF IsErr(s5) THEN s5 ELSE ParseDates(s5)
    IN  IF IsErr(s6) THEN s6 ELSE DropNaDates(s6)

InitNorm ==
    /\ file \in Files /\ file.readable
    /\ pc = "normalize"
    /\ df = None /\ again = None
    /\ records = None /\ html = None /\ ui = <<>> /\ trail = <<>>
    /\ arg = None /\ ret = None

Normalize ==
    /\ pc = "normalize"
    /\ df' = Cleaning(ReadFile(file))
    /\ pc' = "renormalize"
    /\ UNCHANGED <<file, records, html, ui, trail, arg, ret, again>>

Renormalize ==
    /\ pc = "renormalize" /\ ~IsErr(df)
    /\ again' = Cleaning(df)
    /\ pc' = "done"
    /\ UNCHANGED <<file, df, records, html, ui, trail, arg, ret>>

NextNorm == Normalize \/ Renormalize
SpecNorm == InitNorm /\ [][NextNorm]_vars

\* =============================================================== properties
Finished == pc = "done"
Shown(m) == \E i \in 1..Len(ui) : ui[i].m = m
Uploaded == file.k = "file" /\ file.readable
Succeeded == Finished /\ Uploaded /\ Shown("download") /\ ~Shown("error")
TrimmedHas(c) == \E l \in file.hdr : Strip(l) = <<c>>

\* The amount parser the specification describes: currency signs and commas
\* removed, surrounding blanks ignored, the rest an optionally signed decimal
\* literal with at least one digit and at most one point.
RefResidual(s) ==
    LET keep(x) == x \notin {"$", "Rs", ","} IN Strip(SelectSeq(Strip(s), keep))
RefUnsigned(t) == IF t # <<>> /\ t[1] = "-" THEN Tail(t) ELSE t
RefIsDecimal(t) ==
    LET u == RefUnsigned(t)
    IN  /\ \A i \in 1..Len(u) : IsDigit(u[i]) \/ u[i] = "."
        /\ Cardinality({i \in 1..Len(u) : u[i] = "."}) <= 1
        /\ \E i \in 1..Len(u) : IsDigit(u[i])
RefValue(t) ==
    LET u == RefUnsigned(t)
        point == {i \in 1..Len(u) : u[i] = "."}
        decimals == Cardinality({i \in 1..Len(u) : \E q \in point : i > q})
        magnitude == DigitsVal(SelectSeq(u, IsDigit))
    IN  Norm(IF u = t THEN magnitude ELSE 0 - magnitude, decimals)
RefParseAmount(v) ==
    IF v.k # "str" THEN v
    ELSE IF RefIsDecimal(RefResidual(v.s)) THEN RefValue(RefResidual(v.s))
    ELSE Err("ValueError")

BadAmountRow(r) ==
    \E c \in {"Sales Per", "Profit"} \cap DOMAIN r :
        r[c].k = "str" /\ ~RefIsDecimal(RefResidual(r[c].s))

\* C1: when some row of the uploaded table, at any position and whatever its
\* Order Date, holds a textual Sales Per or Profit that is not a number once
\* the signs, commas and blanks are removed, the run ends in the error
\* outcome, and at no point of the run is a record exported or a download
\* offered.
C1_BadAmountFailsRun ==
    (Uploaded /\ \E i \in 1..Len(file.rows) : BadAmountRow(file.rows[i]))
        => /\ records = None
           /\ ~Shown("download")
           /\ Finished => Shown("error")

\* the calendar days pd.to_datetime accepts
MonthDays == <<31, 28, 31, 30, 31, 30, 31, 31, 30, 31, 30, 31>>
Parseable(c) ==
    /\ c.k = "date"
    /\ c.y \in 1678..2261
    /\ c.m \in 1..12
    /\ c.d >= 1
    /\ c.d <= MonthDays[c.m] + (IF c.m = 2 /\ LeapYear(c.y) THEN 1 ELSE 0)
BadDates == {i \in 1..Len(file.rows) : ~Parseable(file.rows[i]["Order Date"])}
RecordOf(i) == {j \in 1..Len(records.items) : records.items[j]["Order ID"] = Num(i)}

C3_AmountsFinite ==
    Succeeded =>
        \A j \in 1..Len(records.items) :
            /\ records.items[j]["Sales_USD"].k = "num"
            /\ records.items[j]["Profit_USD"].k = "num"

NormalizationSteps ==
    {"fill_category", "fill_sales", "parse_sales", "parse_profit",
     "to_datetime", "dropna", "ibr_rate", "usd", "inr", "yearmonth"}

\* C4: when a column the script refers to is absent after header trimming,
\* the run aborts, and at the abort no fill, amount-parse, date-filter or
\* enrichment statement has been executed.
C4_AbortBeforeNormalization ==
    (Finished /\ Uploaded /\ \E c \in Columns : ~TrimmedHas(c))
        => /\ Shown("error")
           /\ \A i \in 1..Len(trail) : trail[i] \notin NormalizationSteps

\* C5: a run in which an error was raised has shown the operator exactly one
\* message, the error notice: no success notice, preview or download.
C5_SingleErrorNotice ==
    (Finished /\ Shown("error")) => ui = <<ui[1]>> /\ ui[1].m = "error"

Increasing(seq) == \A a, b \in 1..Len(seq) : a < b => seq[a] < seq[b]

\* C6: rows keep their input order: the index labels of the data frame
\* increase at every statement, and the exported records (and the copy in
\* the document) carry the Order IDs, which are the input positions, in
\* increasing order.
C6_OrderPreserved ==
    /\ df # None => Increasing([i \in 1..Len(df.rows) |-> df.rows[i]["idx"]])
    /\ records # None =>
         Increasing([j \in 1..Len(records.items) |-> records.items[j]["Order ID"].n])
    /\ html # None => html.data = records.items

C6_Witness ==
    /\ Succeeded
    /\ Len(records.items) = 2
    /\ records.items[1]["YearMonth"] # records.items[2]["YearMonth"]

\* the rate table as the specification lists it
RateOfYear(y) ==
    CASE y = 2021 -> Norm(741, 1)
      [] y = 2022 -> Norm(786, 1)
      [] y = 2023 -> Norm(825, 1)
      [] y = 2024 -> Norm(834, 1)
      [] y = 2025 -> Norm(845, 1)
      [] OTHER -> Norm(830, 1)

\* C7: every exported record carries the rate of the year of its own Order
\* Date (83.0 outside the table), Sales_USD and Profit_USD equal to the
\* cleaned Sales Per and Profit of its row (a numeric Profit unchanged, sign
\* included), the INR amounts as the products with that rate, and YearMonth
\* as the zero-padded YYYY-MM of its Order Date.
C7_Enrichment ==
    records # None =>
        \A j \in 1..Len(records.items) :
            LET rec == records.items[j]
                raw == file.rows[rec["Order ID"].n]
                ym == rec["YearMonth"].s
            IN  /\ rec["IBR_Rate"] = RateOfYear(raw["Order Date"].y)
                /\ rec["Sales_USD"] = df.rows[j]["Sales Per"]
                /\ rec["Profit_USD"] = df.rows[j]["Profit"]
                /\ raw["Sales Per"].k = "nan" => rec["Sales_USD"] = Num(0)
                /\ raw["Profit"].k = "num" => rec["Profit_USD"] = raw["Profit"]
                /\ rec["Sales_INR"] = FMul(rec["Sales_USD"], rec["IBR_Rate"])
                /\ rec["Profit_INR"] = FMul(rec["Profit_USD"], rec["IBR_Rate"])
                /\ Len(ym) = 7 /\ ym[5] = "-"
                /\ DigitsVal(SubSeq(ym, 1, 4)) = raw["Order Date"].y
                /\ DigitsVal(SubSeq(ym, 6, 7)) = raw["Order Date"].m

\* the scenario of the specification: 2023-06-15, no Category, "$100", "$20"
C7_Witness ==
    /\ Succeeded
    /\ \E j \in 1..Len(records.items) :
          /\ records.items[j]["Category"] = Str(<<"Uncategorized">>)
          /\ records.items[j]["IBR_Rate"] = Norm(825, 1)
          /\ records.items[j]["Sales_USD"] = Num(100)
          /\ records.items[j]["Sales_INR"] = Num(8250)
          /\ records.items[j]["Profit_INR"] = Num(1650)
          /\ records.items[j]["YearMonth"] = Str(<<"2", "0", "2", "3", "-", "0", "6">>)
    /\ \E j \in 1..Len(records.items) :
          /\ records.items[j]["IBR_Rate"] = Norm(741, 1)
          /\ records.items[j]["Profit_USD"] = Num(0 - 3)
          /\ records.items[j]["Profit_INR"] = Norm(0 - 2223, 1)
          /\ records.items[j]["YearMonth"] = Str(<<"2", "0", "2", "1", "-", "1", "2">>)

\* C8: clean_currency returns what the specification's parser returns: a
\* numeric value unchanged, a text the number it denotes, and a failure
\* exactly when the residual text is no decimal literal.
C8_ParseAgreesWithReference ==
    pc = "returned" => ret = RefParseAmount(arg)

\* C9: get_ibr_rate returns a rate for every year, the listed one for
\* 2021..2025 and 83.0 for every other year, and never fails.
C9_RateTotal ==
    pc = "returned" => ret.k = "num" /\ ret = RateOfYear(arg.y)

C9_Witness ==
    /\ pc = "returned"
    /\ arg.y = 1999
    /\ ret = Norm(830, 1)

\* C10: the cleaning pipeline applied to its own output returns that output:
\* the same rows in the same order, none dropped.
C10_Idempotent ==
    (pc = "done" /\ ~IsErr(df)) => again = df

====
